---- MODULE Spec2Model ----
(***************************************************************************)
(* Model of the dielectric-interface field visualizer                      *)
(* (src/src_shiny_app/app.py): five reactive text inputs and the           *)
(* @render.plot function plot().                                           *)
(*                                                                         *)
(* Numbers.  A Python float is modelled as a record:                       *)
(*   [k |-> "fin", v |-> n]   a finite value, n a fixed-point integer      *)
(*   [k |-> "nan", v |-> 0]   not-a-number                                 *)
(*   [k |-> "inf", v |-> s]   infinity of sign s (1 or -1)                 *)
(* Permittivities, magnitudes, degrees and vector components are held in   *)
(* units of 1/Scale; radians and sine/cosine values in units of            *)
(* 1/TrigScale.  All roundings are to nearest, half away from zero, so     *)
(* every operation is sign-symmetric as the IEEE operations are.           *)
(***************************************************************************)
EXTENDS Integers, Sequences, FiniteSets, TLC

\* Fixed-point resolutions of the model (not program constants).
Scale == 10 ^ 4
TrigScale == 10 ^ 6
TrigUnit == TrigScale \div Scale

----------------------------------------------------------------------------
(* Integer helpers *)

Abs(x) == IF x < 0 THEN -x ELSE x
Sgn(x) == IF x < 0 THEN -1 ELSE IF x > 0 THEN 1 ELSE 0

\* a / b rounded to nearest, half away from zero (b > 0).
RDiv(a, b) == Sgn(a) * ((Abs(a) + b \div 2) \div b)

\* a * p / q rounded, without forming a * p (p, q > 0 small).
MulRatio(a, p, q) ==
  LET A == Abs(a)
  IN  Sgn(a) * ((A \div q) * p + RDiv((A % q) * p, q))

\* (M / Scale) * (t / TrigScale) in units of 1/Scale.
MulTrigInt(M, t) ==
  LET A  == Abs(M)
      B  == Abs(t)
      mh == A \div 1000
      ml == A % 1000
      th == B \div 1000
      tl == B % 1000
  IN  Sgn(M) * Sgn(t) * (mh * th + RDiv(mh * tl + ml * th + RDiv(ml * tl, 1000), 1000))

\* (a / TrigScale) * (b / TrigScale) in units of 1/TrigScale.
MulT(a, b) == MulTrigInt(a, b)

\* (a / Scale) * (b / Scale) in units of 1/Scale; the larger factor is split.
MulInt(a, b) ==
  LET A  == IF Abs(a) >= Abs(b) THEN Abs(a) ELSE Abs(b)
      B  == IF Abs(a) >= Abs(b) THEN Abs(b) ELSE Abs(a)
  IN  Sgn(a) * Sgn(b) * ((A \div Scale) * B + RDiv((A % Scale) * B, Scale))

\* round(r * 10^digits / b) for 0 <= r < b, by long division (no large product).
RECURSIVE FracDigits(_, _, _)
FracDigits(r, b, digits) ==
  IF digits = 0 THEN (IF 2 * r >= b THEN 1 ELSE 0)
  ELSE ((10 * r) \div b) * (10 ^ (digits - 1)) + FracDigits((10 * r) % b, b, digits - 1)

\* (a / Scale) / (b / Scale) in units of 1/Scale (b # 0).
DivInt(a, b) ==
  LET A == Abs(a)
      B == Abs(b)
  IN  Sgn(a) * Sgn(b) * ((A \div B) * Scale + FracDigits(A % B, B, 4))

----------------------------------------------------------------------------
(* The numeric library's elementary functions, in fixed point.            *)
(* pi is taken as 355/113 (relative error below 10^-7).                   *)

Pi == MulRatio(TrigScale, 355, 113)
HalfPi == RDiv(Pi, 2)
TwoPi == 2 * Pi

\* Degrees (units of 1/Scale) to radians (units of 1/TrigScale): x * pi / 180.
RadInt(d) == MulRatio(d * 5, 355, 113 * 9)

\* Radians (units of 1/TrigScale) to degrees (units of 1/Scale): x * 180 / pi.
DegInt(r) == MulRatio(r, 113 * 9, 355 * 5)

\* Argument reduction to [-pi, pi].
ReduceInt(x) == x - TwoPi * RDiv(x, TwoPi)

\* 1 - (x2 / k) * inner : one step of the Horner form of the Taylor series.
Horner(x2, k, inner) == TrigScale - RDiv(MulT(x2, inner), k)

\* sin on [-pi/2, pi/2], Taylor series to x^13.
SinKernel(x) ==
  LET x2 == MulT(x, x)
  IN  MulT(x, Horner(x2, 6, Horner(x2, 20, Horner(x2, 42,
                Horner(x2, 72, Horner(x2, 110, Horner(x2, 156, TrigScale)))))))

\* cos on [-pi/2, pi/2], Taylor series to x^14.
CosKernel(x) ==
  LET x2 == MulT(x, x)
  IN  Horner(x2, 2, Horner(x2, 12, Horner(x2, 30, Horner(x2, 56,
                Horner(x2, 90, Horner(x2, 132, Horner(x2, 182, TrigScale)))))))

Clamp(v) == IF v > TrigScale THEN TrigScale ELSE IF v < -TrigScale THEN -TrigScale ELSE v

SinInt(x) ==
  LET r == ReduceInt(x)
      f == IF r > HalfPi THEN Pi - r ELSE IF r < -HalfPi THEN -Pi - r ELSE r
  IN  Clamp(SinKernel(f))

CosInt(x) ==
  LET r == Abs(ReduceInt(x))
  IN  IF r > HalfPi THEN -Clamp(CosKernel(Pi - r)) ELSE Clamp(CosKernel(r))

\* The angle in [lo, hi] whose sine is nearest below y (0 <= y < TrigScale), by bisection.
RECURSIVE Bisect(_, _, _)
Bisect(y, lo, hi) ==
  IF hi - lo <= 1 THEN (IF SinKernel(hi) - y <= y - SinKernel(lo) THEN hi ELSE lo)
  ELSE LET mid == (lo + hi) \div 2
       IN  IF SinKernel(mid) <= y THEN Bisect(y, mid, hi) ELSE Bisect(y, lo, mid)

\* arcsin on [-1, 1] (y in units of 1/TrigScale), principal value.
ArcSinInt(y) ==
  IF Abs(y) = TrigScale THEN Sgn(y) * HalfPi
  ELSE Sgn(y) * Bisect(Abs(y), 0, HalfPi)

----------------------------------------------------------------------------
(* Floating-point values *)

Fin(n) == [k |-> "fin", v |-> n]
NaN == [k |-> "nan", v |-> 0]
Inf(s) == [k |-> "inf", v |-> s]

IsFin(x) == x.k = "fin"
IsNaN(x) == x.k = "nan"

\* x < y on floats: false whenever an operand is not-a-number.
Lt(x, y) ==
  CASE IsNaN(x) \/ IsNaN(y) -> FALSE
    [] IsFin(x) /\ IsFin(y) -> x.v < y.v
    [] IsFin(x) -> y.v = 1
    [] IsFin(y) -> x.v = -1
    [] OTHER -> x.v < y.v

Gt(x, y) == Lt(y, x)

\* x <= y on floats (false whenever an operand is not-a-number).
Le(x, y) == ~IsNaN(x) /\ ~IsNaN(y) /\ ~Lt(y, x)

IsZero(x) == IsFin(x) /\ x.v = 0

SignOf(x) == IF IsFin(x) THEN Sgn(x.v) ELSE x.v

\* Product of two floats held in units of 1/Scale.
FloatMul(x, y) ==
  CASE IsNaN(x) \/ IsNaN(y) -> NaN
    [] IsFin(x) /\ IsFin(y) -> Fin(MulInt(x.v, y.v))
    [] IsZero(x) \/ IsZero(y) -> NaN
    [] OTHER -> Inf(SignOf(x) * SignOf(y))

\* Quotient of two floats held in units of 1/Scale, divisor not zero.
FloatDiv(x, y) ==
  CASE IsNaN(x) \/ IsNaN(y) -> NaN
    [] IsFin(x) /\ IsFin(y) -> Fin(DivInt(x.v, y.v))
    [] IsFin(y) -> Inf(SignOf(x) * (IF y.v < 0 THEN -1 ELSE 1))
    [] IsFin(x) -> Fin(0)
    [] OTHER -> NaN

\* A float in units of 1/Scale times a sine or cosine (units of 1/TrigScale).
MulTrig(m, t) ==
  CASE IsNaN(m) \/ IsNaN(t) -> NaN
    [] IsFin(m) /\ IsFin(t) -> Fin(MulTrigInt(m.v, t.v))
    [] IsZero(t) -> NaN
    [] OTHER -> Inf(SignOf(m) * SignOf(t))

\* numpy.radians, numpy.degrees, numpy.sin, numpy.cos: nan for a non-finite argument
\* (radians and degrees keep an infinity).
Radians(x) == IF IsFin(x) THEN Fin(RadInt(x.v)) ELSE x
Degrees(x) == IF IsFin(x) THEN Fin(DegInt(x.v)) ELSE x
Sin(x) == IF IsFin(x) THEN Fin(SinInt(x.v)) ELSE NaN
Cos(x) == IF IsFin(x) THEN Fin(CosInt(x.v)) ELSE NaN

\* numpy.arcsin of an argument held in units of 1/Scale: nan (with a warning, no
\* exception) outside [-1, 1]; the result is in radians, units of 1/TrigScale.
ArcSin(x) ==
  IF IsFin(x) /\ Abs(x.v) <= Scale THEN Fin(ArcSinInt(x.v * TrigUnit)) ELSE NaN

----------------------------------------------------------------------------
(* Text and the built-in float() conversion.  A text is a sequence of     *)
(* one-character strings.  The model covers texts over the alphabet of    *)
(* digits, ".", "-", "+" and lower-case letters: an optional sign followed *)
(* by "inf", "infinity", "nan" or a decimal numeral.                      *)

Digits == <<"0", "1", "2", "3", "4", "5", "6", "7", "8", "9">>
IsDigit(c) == \E i \in 1..10 : Digits[i] = c
DigitVal(c) == (CHOOSE i \in 1..10 : Digits[i] = c) - 1

AllDigits(t) == \A i \in 1..Len(t) : IsDigit(t[i])

\* Value of a digit string as an integer.
RECURSIVE IntOf(_)
IntOf(t) == IF t = <<>> THEN 0 ELSE 10 * IntOf(SubSeq(t, 1, Len(t) - 1)) + DigitVal(t[Len(t)])

\* Value of a fraction digit string in units of 1/Scale (four digits, the fifth rounds).
FracOf(t) ==
  LET d(i) == IF i <= Len(t) THEN DigitVal(t[i]) ELSE 0
  IN  1000 * d(1) + 100 * d(2) + 10 * d(3) + d(4) + (IF d(5) >= 5 THEN 1 ELSE 0)

DotAt(t) == IF \E i \in 1..Len(t) : t[i] = "." THEN CHOOSE i \in 1..Len(t) : t[i] = "." /\ \A j \in 1..(i - 1) : t[j] # "." ELSE 0

\* An unsigned decimal numeral: digits, at most one ".", at least one digit.
IsNumeral(t) ==
  LET p == DotAt(t)
  IN  IF p = 0 THEN t # <<>> /\ AllDigits(t)
      ELSE /\ AllDigits(SubSeq(t, 1, p - 1))
           /\ AllDigits(SubSeq(t, p + 1, Len(t)))
           /\ Len(t) > 1

NumeralOf(t) ==
  LET p == DotAt(t)
  IN  IF p = 0 THEN IntOf(t) * Scale
      ELSE IntOf(SubSeq(t, 1, p - 1)) * Scale + FracOf(SubSeq(t, p + 1, Len(t)))

\* float(text): [ok |-> TRUE, val |-> the value], or ok = FALSE for a ValueError.
ParseFloat(t) ==
  LET signed == t # <<>> /\ t[1] \in {"-", "+"}
      s      == IF signed /\ t[1] = "-" THEN -1 ELSE 1
      body   == IF signed THEN Tail(t) ELSE t
  IN  CASE body = <<"n", "a", "n">> -> [ok |-> TRUE, val |-> NaN]
        [] body = <<"i", "n", "f">> -> [ok |-> TRUE, val |-> Inf(s)]
        [] body = <<"i", "n", "f", "i", "n", "i", "t", "y">> -> [ok |-> TRUE, val |-> Inf(s)]
        [] IsNumeral(body) -> [ok |-> TRUE, val |-> Fin(s * NumeralOf(body))]
        [] OTHER -> [ok |-> FALSE, val |-> NaN]

----------------------------------------------------------------------------
(* The reactive page: five text inputs and the plot output.               *)

VARIABLES
  input,     \* the current text of each of the five input controls
  outcome,   \* the plot output: invalidated, or what the last call of plot() did
  pyplot,    \* matplotlib.pyplot's open figures, the last one the current figure
  display,   \* what the output region of the page shows
  previous   \* how the execution of plot() before the current one ended ("" if none)

vars == <<input, outcome, pyplot, display, previous>>

\* Lines 1-3: the modules app.py imports.
Imports == {"numpy", "matplotlib.pyplot", "shiny.express"}

FieldKeys == {"epsilon1", "epsilon2", "E1_magnitude", "D1_magnitude", "alpha1"}

\* ui.input_text(..., value=...): the initial text of each control.
Defaults ==
  [epsilon1 |-> <<"1">>, epsilon2 |-> <<"2">>, E1_magnitude |-> <<"5">>,
   D1_magnitude |-> <<"5">>, alpha1 |-> <<"3", "0">>]

\* The texts a user types into each control in this model.
Texts ==
  [epsilon1 |-> {<<"1">>, <<>>, <<"0">>, <<"-", "1">>, <<"2">>, <<"n", "a", "n">>,
                 <<"a", "b", "c">>, <<"1", "0", "0", "0", "0">>, <<"1", "0", "0", "0", "1">>},
   epsilon2 |-> {<<"2">>, <<>>, <<"0">>, <<"1">>, <<"-", "1">>, <<"a", "b", "c">>,
                 <<"1", "0", "0", "0", "0">>, <<"1", "0", "0", "0", "1">>},
   E1_magnitude |-> {<<"5">>, <<>>, <<"0">>, <<"-", "1">>, <<"a", "b", "c">>,
                     <<"1", "0", "0", "0", "1">>},
   D1_magnitude |-> {<<"5">>, <<>>, <<"-", "1">>, <<"n", "a", "n">>, <<"a", "b", "c">>,
                     <<"1", "0", "0", "0", "0">>, <<"1", "0", "0", "0", "1">>},
   alpha1 |-> {<<"3", "0">>, <<>>, <<"0">>, <<"-", "3", "0">>, <<"9", "0">>,
               <<"3", "6", "0">>, <<"-", "3", "6", "0">>,
               <<"3", "6", "0", ".", "0", "0", "0", "1">>, <<"-", "3", "6", "1">>,
               <<"i", "n", "f">>, <<"a", "b", "c">>}]

\* At most this many controls hold a text other than their default at once.
MaxChanged == 4

Changed(inp) == {f \in FieldKeys : inp[f] # Defaults[f]}

----------------------------------------------------------------------------
(* plot() *)

NoValue == [k |-> "none"]

\* Mutant: the emptiness test also forgets alpha1.
EmptinessGate_NoAlpha1(inp) ==
  inp.epsilon1 = <<>> \/ inp.epsilon2 = <<>> \/ inp.E1_magnitude = <<>>

\* Mutant: the emptiness test covers all five texts.
EmptinessGate_WithD1(inp) ==
  \E f \in FieldKeys : inp[f] = <<>>

\* Line 20: the emptiness test of four of the five texts.
EmptinessGate(inp) ==
  inp.epsilon1 = <<>> \/ inp.epsilon2 = <<>> \/ inp.E1_magnitude = <<>> \/ inp.alpha1 = <<>>

\* Mutant: only the four texts the emptiness gate screens are converted strictly.
ParseOk_GatedOnly(inp) == \A f \in FieldKeys \ {"D1_magnitude"} : ParseFloat(inp[f]).ok

\* Lines 22-26: the five float() conversions, in order; the first text that
\* does not convert raises ValueError.
ParseOk(inp) == \A f \in FieldKeys : ParseFloat(inp[f]).ok

Parsed(inp) == [f \in FieldKeys |-> ParseFloat(inp[f]).val]

\* Mutant: the upper bound of alpha1 is exclusive.
RangeGate_Exclusive(p) ==
  \/ Lt(p.epsilon1, Fin(0))
  \/ Lt(p.D1_magnitude, Fin(0))
  \/ Gt(p.D1_magnitude, Fin(10000 * Scale))
  \/ Lt(p.epsilon2, Fin(0))
  \/ Gt(p.epsilon1, Fin(10000 * Scale))
  \/ Gt(p.epsilon2, Fin(10000 * Scale))
  \/ Lt(p.E1_magnitude, Fin(0))
  \/ Gt(p.E1_magnitude, Fin(10000 * Scale))
  \/ Lt(p.alpha1, Fin(-360 * Scale))
  \/ ~Lt(p.alpha1, Fin(360 * Scale))

\* Mutant: the lower bound of epsilon2 is exclusive.
RangeGate_Eps2Exclusive(p) ==
  \/ Lt(p.epsilon1, Fin(0))
  \/ Lt(p.D1_magnitude, Fin(0))
  \/ Gt(p.D1_magnitude, Fin(10000 * Scale))
  \/ ~Gt(p.epsilon2, Fin(0))
  \/ Gt(p.epsilon1, Fin(10000 * Scale))
  \/ Gt(p.epsilon2, Fin(10000 * Scale))
  \/ Lt(p.E1_magnitude, Fin(0))
  \/ Gt(p.E1_magnitude, Fin(10000 * Scale))
  \/ Lt(p.alpha1, Fin(-360 * Scale))
  \/ Gt(p.alpha1, Fin(360 * Scale))

\* Line 27: the range test; TRUE means plot() returns without a figure.
RangeGate(p) ==
  \/ Lt(p.epsilon1, Fin(0))
  \/ Lt(p.D1_magnitude, Fin(0))
  \/ Gt(p.D1_magnitude, Fin(10000 * Scale))
  \/ Lt(p.epsilon2, Fin(0))
  \/ Gt(p.epsilon1, Fin(10000 * Scale))
  \/ Gt(p.epsilon2, Fin(10000 * Scale))
  \/ Lt(p.E1_magnitude, Fin(0))
  \/ Gt(p.E1_magnitude, Fin(10000 * Scale))
  \/ Lt(p.alpha1, Fin(-360 * Scale))
  \/ Gt(p.alpha1, Fin(360 * Scale))

\* Lines 34 and 41: epsilon1 / epsilon2 on Python floats raises ZeroDivisionError
\* for a zero divisor.
DivisionFails(p) == IsZero(p.epsilon2)

\* Mutant: the refraction law takes the cosine of the incidence angle.
RefractionAngle_Cos(p, alpha1_rad) ==
  ArcSin(MulTrig(FloatDiv(p.epsilon1, p.epsilon2), Cos(alpha1_rad)))

\* Mutant: the refraction argument is clamped to [-1, 1] before the arcsine.
RefractionAngle_Clamped(p, alpha1_rad) ==
  LET a == MulTrig(FloatDiv(p.epsilon1, p.epsilon2), Sin(alpha1_rad))
  IN  ArcSin(IF IsFin(a) /\ a.v > Scale THEN Fin(Scale)
             ELSE IF IsFin(a) /\ a.v < -Scale THEN Fin(-Scale) ELSE a)

\* Line 34: alpha2_rad = arcsin((epsilon1 / epsilon2) * sin(alpha1_rad)).
RefractionAngle(p, alpha1_rad) ==
  ArcSin(MulTrig(FloatDiv(p.epsilon1, p.epsilon2), Sin(alpha1_rad)))

\* Mutant: E2_magnitude is scaled from the D1_magnitude field.
E2Magnitude_FromD1(p) == FloatMul(p.D1_magnitude, FloatDiv(p.epsilon1, p.epsilon2))

\* Line 41: E2_magnitude = E1_magnitude * (epsilon1 / epsilon2).
E2Magnitude(p) == FloatMul(p.E1_magnitude, FloatDiv(p.epsilon1, p.epsilon2))

\* Mutant: D2 is scaled by the permittivity of the first medium.
D2Magnitude_Eps1(p, E2_magnitude) == FloatMul(p.epsilon1, E2_magnitude)

\* Mutant: D2_magnitude is the D1_magnitude field.
D2Magnitude_FromD1(p, E2_magnitude) == p.D1_magnitude

\* Line 49: D2_magnitude = epsilon2 * E2_magnitude.
D2Magnitude(p, E2_magnitude) == FloatMul(p.epsilon2, E2_magnitude)

\* Lines 38, 42, 46, 50: magnitude * cos(angle).
XComponent(m, angle) == MulTrig(m, Cos(angle))

\* Mutant: the y component is taken from the sine of the absolute angle.
YComponent_Abs(m, angle) == MulTrig(m, Sin(IF IsFin(angle) THEN Fin(Abs(angle.v)) ELSE angle))

\* Lines 39, 43, 47, 51: magnitude * sin(angle).
YComponent(m, angle) == MulTrig(m, Sin(angle))

\* Mutant: the medium-1 components are taken at the refraction angle.
Geometry_SharedAngle(p) ==
  LET alpha1_rad   == Radians(p.alpha1)
      alpha2_rad   == RefractionAngle(p, alpha1_rad)
      E2_magnitude == E2Magnitude(p)
      D2_magnitude == D2Magnitude(p, E2_magnitude)
  IN  [alpha1_rad   |-> alpha1_rad,
       alpha2_rad   |-> alpha2_rad,
       alpha2       |-> Degrees(alpha2_rad),
       E1_x         |-> XComponent(p.E1_magnitude, alpha2_rad),
       E1_y         |-> YComponent(p.E1_magnitude, alpha2_rad),
       E2_magnitude |-> E2_magnitude,
       E2_x         |-> XComponent(E2_magnitude, alpha2_rad),
       E2_y         |-> YComponent(E2_magnitude, alpha2_rad),
       D1_x         |-> XComponent(p.D1_magnitude, alpha2_rad),
       D1_y         |-> YComponent(p.D1_magnitude, alpha2_rad),
       D2_magnitude |-> D2_magnitude,
       D2_x         |-> XComponent(D2_magnitude, alpha2_rad),
       D2_y         |-> YComponent(D2_magnitude, alpha2_rad)]

\* Lines 33-51: the angles and the vector components (epsilon2 not zero).
Geometry(p) ==
  LET alpha1_rad   == Radians(p.alpha1)
      alpha2_rad   == RefractionAngle(p, alpha1_rad)
      E2_magnitude == E2Magnitude(p)
      D2_magnitude == D2Magnitude(p, E2_magnitude)
  IN  [alpha1_rad   |-> alpha1_rad,
       alpha2_rad   |-> alpha2_rad,
       alpha2       |-> Degrees(alpha2_rad),
       E1_x         |-> XComponent(p.E1_magnitude, alpha1_rad),
       E1_y         |-> YComponent(p.E1_magnitude, alpha1_rad),
       E2_magnitude |-> E2_magnitude,
       E2_x         |-> XComponent(E2_magnitude, alpha2_rad),
       E2_y         |-> YComponent(E2_magnitude, alpha2_rad),
       D1_x         |-> XComponent(p.D1_magnitude, alpha1_rad),
       D1_y         |-> YComponent(p.D1_magnitude, alpha1_rad),
       D2_magnitude |-> D2_magnitude,
       D2_x         |-> XComponent(D2_magnitude, alpha2_rad),
       D2_y         |-> YComponent(D2_magnitude, alpha2_rad)]

\* Mutant: the offset is left out of the tail coordinate.
TailAt_NoOffset(v, offset) == IF IsFin(v) THEN Fin(-v.v) ELSE IF IsNaN(v) THEN NaN ELSE Inf(-v.v)

\* -v + offset, the tail coordinate of a medium-2 arrow.
TailAt(v, offset) == IF IsFin(v) THEN Fin(-v.v + offset * Scale) ELSE IF IsNaN(v) THEN NaN ELSE Inf(-v.v)

Quiver(x, y, u, v, color, label) ==
  [op |-> "quiver", x |-> x, y |-> y, u |-> u, v |-> v, color |-> color, label |-> label]

\* Mutant: every E2 arrow of the left panel carries the legend label.
LeftArrows_AllLabelled(g) ==
  <<Quiver(Fin(-2 * Scale), Fin(0), g.E1_x, g.E1_y, "orange", "$E_1$"),
    Quiver(Fin(0), Fin(0), g.E1_x, g.E1_y, "orange", ""),
    Quiver(Fin(2 * Scale), Fin(0), g.E1_x, g.E1_y, "orange", "")>>
  \o [i \in 1..5 |->
        Quiver(TailAt(g.E2_x, i - 3), TailAt(g.E2_y, 0), g.E2_x, g.E2_y, "blue", "$E_2$")]

\* Lines 57-62: the arrows of the left panel, in call order.
LeftArrows(g) ==
  <<Quiver(Fin(-2 * Scale), Fin(0), g.E1_x, g.E1_y, "orange", "$E_1$"),
    Quiver(Fin(0), Fin(0), g.E1_x, g.E1_y, "orange", ""),
    Quiver(Fin(2 * Scale), Fin(0), g.E1_x, g.E1_y, "orange", "")>>
  \o [i \in 1..5 |->
        Quiver(TailAt(g.E2_x, i - 3), TailAt(g.E2_y, 0), g.E2_x, g.E2_y, "blue",
               IF i = 1 THEN "$E_2$" ELSE "")]

\* Mutant: the D2 arrows start on the boundary like the D1 arrows.
RightArrows_D2AtOffset(g) ==
  [j \in 1..10 |->
     LET i == (j + 1) \div 2
     IN  IF j % 2 = 1
         THEN Quiver(Fin((i - 3) * Scale), Fin(0), g.D1_x, g.D1_y, "red",
                     IF i = 1 THEN "$D_1$" ELSE "")
         ELSE Quiver(Fin((i - 3) * Scale), Fin(0), g.D2_x, g.D2_y, "blue",
                     IF i = 1 THEN "$D_2$" ELSE "")]

\* Lines 73-78: the arrows of the right panel, in call order (D1 then D2 per offset).
RightArrows(g) ==
  [j \in 1..10 |->
     LET i == (j + 1) \div 2
     IN  IF j % 2 = 1
         THEN Quiver(Fin((i - 3) * Scale), Fin(0), g.D1_x, g.D1_y, "red",
                     IF i = 1 THEN "$D_1$" ELSE "")
         ELSE Quiver(TailAt(g.D2_x, i - 3), TailAt(g.D2_y, 0), g.D2_x, g.D2_y, "blue",
                     IF i = 1 THEN "$D_2$" ELSE "")]

\* Lines 54-87: the two-panel figure (plt.subplots(1, 2)) and what is drawn on it.
Figure(g) ==
  [left  |-> [arrows |-> LeftArrows(g), hline |-> FALSE, legend |-> TRUE, grid |-> TRUE],
   right |-> [arrows |-> RightArrows(g), hline |-> TRUE, legend |-> TRUE, grid |-> TRUE]]

Ended(kind, stage, error, p, g, fig) ==
  [kind |-> kind, stage |-> stage, error |-> error, parsed |-> p, geom |-> g, fig |-> fig]

\* Mutant: the texts are converted before the emptiness test.
Plot_ParseFirst(inp) ==
  IF ~ParseOk(inp) THEN Ended("error", "parse", "ValueError", NoValue, NoValue, NoValue)
  ELSE LET p == Parsed(inp)
       IN  IF RangeGate(p) THEN Ended("none", "range_gate", "", p, NoValue, NoValue)
           ELSE IF DivisionFails(p)
                THEN Ended("error", "compute", "ZeroDivisionError", p, NoValue, NoValue)
                ELSE LET g == Geometry(p)
                     IN  Ended("figure", "return", "", p, g, Figure(g))

\* Mutant: each text is range-tested as soon as it is converted, so an out-of-range
\* value ends the render before a later text is found not to convert.
Plot_RangeFirst(inp) ==
  LET q == [f \in FieldKeys |-> IF ParseFloat(inp[f]).ok THEN ParseFloat(inp[f]).val ELSE Fin(0)]
  IN  IF EmptinessGate(inp) THEN Ended("none", "emptiness_gate", "", NoValue, NoValue, NoValue)
      ELSE IF RangeGate(q) THEN Ended("none", "range_gate", "", q, NoValue, NoValue)
      ELSE IF ~ParseOk(inp) THEN Ended("error", "parse", "ValueError", NoValue, NoValue, NoValue)
      ELSE IF DivisionFails(q)
           THEN Ended("error", "compute", "ZeroDivisionError", q, NoValue, NoValue)
           ELSE LET g == Geometry(q)
                IN  Ended("figure", "return", "", q, g, Figure(g))

\* Lines 13-88: one call of plot() on the current input texts.
Plot(inp) ==
  IF EmptinessGate(inp) THEN Ended("none", "emptiness_gate", "", NoValue, NoValue, NoValue)
  ELSE IF ~ParseOk(inp) THEN Ended("error", "parse", "ValueError", NoValue, NoValue, NoValue)
  ELSE LET p == Parsed(inp)
       IN  IF RangeGate(p) THEN Ended("none", "range_gate", "", p, NoValue, NoValue)
           ELSE IF DivisionFails(p)
                THEN Ended("error", "compute", "ZeroDivisionError", p, NoValue, NoValue)
                ELSE LET g == Geometry(p)
                     IN  Ended("figure", "return", "", p, g, Figure(g))

\* The value of Python's None.
PyNone == [k |-> "None"]

\* Mutant: D1_magnitude is read from the E1_magnitude control.
ReadInputs_D1FromE1(inp) ==
  [epsilon1 |-> inp.epsilon1, epsilon2 |-> inp.epsilon2, E1_magnitude |-> inp.E1_magnitude,
   D1_magnitude |-> inp.E1_magnitude, alpha1 |-> inp.alpha1]

\* Lines 15-19: the five texts plot() reads, each into the local of its own name.
ReadInputs(inp) ==
  [epsilon1 |-> inp.epsilon1, epsilon2 |-> inp.epsilon2, E1_magnitude |-> inp.E1_magnitude,
   D1_magnitude |-> inp.D1_magnitude, alpha1 |-> inp.alpha1]

\* Mutant: D1_magnitude is read without taking a reactive dependency on it.
Reads_IsolatedD1(inp) == FieldKeys \ {"D1_magnitude"}

\* Mutant: D1_magnitude is read only after the emptiness gate.
Reads_AfterGate(inp) ==
  IF EmptinessGate(inp) THEN FieldKeys \ {"D1_magnitude"} ELSE FieldKeys

\* Lines 15-19: the inputs a call of plot() reads through input.<key>(), and so the
\* reactive dependencies of the output; all five reads precede every return.
Reads(inp) == FieldKeys

\* Lines 21, 28 and 88: what plot() returns: a bare return, or the result of
\* plt.show(), which is None.
ReturnValue(fig) == PyNone

\* Mutant: a second figure is opened before plt.subplots.
OpenedFigures_Extra(e) == IF e.kind = "figure" THEN <<e.fig, e.fig>> ELSE <<>>

\* Mutant: an execution that ends without a figure leaves a blank figure open.
OpenedFigures_OnFailure(e) == IF e.kind = "figure" THEN <<e.fig>> ELSE <<[k |-> "blank"]>>

\* Line 54: plt.subplots registers the one new figure with pyplot.
OpenedFigures(e) == IF e.kind = "figure" THEN <<e.fig>> ELSE <<>>

\* Mutant: the texts are converted through the vendored library.
ModulesCalled_Narwhals(e) ==
  IF e.stage = "emptiness_gate" THEN {"shiny.express"} ELSE {"shiny.express", "builtins", "narwhals"}

\* Mutant: plt.subplots is called before the gates.
ModulesCalled_PlotFirst(e) == {"shiny.express", "builtins", "numpy", "matplotlib.pyplot"}

\* Lines 15-88: the modules whose functions an execution of plot() calls before it ends:
\* input.<key>() (lines 15-19), float (22-26), np.radians ... (33-51), plt.subplots,
\* the axes methods of the figure it returns, plt.tight_layout, plt.show (54-88).
ModulesCalled(e) ==
  IF e.stage = "emptiness_gate" THEN {"shiny.express"}
  ELSE IF e.stage \in {"parse", "range_gate"} THEN {"shiny.express", "builtins"}
  ELSE IF e.stage = "compute" THEN {"shiny.express", "builtins", "numpy"}
  ELSE {"shiny.express", "builtins", "numpy", "matplotlib.pyplot"}

\* One execution of plot() as the framework sees it.
Call(inp) ==
  LET e == Plot(ReadInputs(inp))
  IN  e @@ [read |-> ReadInputs(inp), deps |-> Reads(inp), ret |-> ReturnValue(e.fig),
            calls |-> ModulesCalled(e)]

Invalidated ==
  [kind |-> "invalidated", stage |-> "", error |-> "", parsed |-> NoValue,
   geom |-> NoValue, fig |-> NoValue, read |-> NoValue, deps |-> {}, ret |-> NoValue,
   calls |-> {}]

Pending == [state |-> "pending", fig |-> NoValue]

IsFigure(x) == DOMAIN x = {"left", "right"}

\* The hosting framework's treatment of what plot() returned: an error is surfaced;
\* a returned figure, or for None pyplot's current figure, is drawn and then closed;
\* None with no open figure leaves the output blank.
Shown(o, figs) ==
  IF o.kind = "error" THEN [state |-> "error", fig |-> NoValue]
  ELSE IF IsFigure(o.ret) THEN [state |-> "figure", fig |-> o.ret]
  ELSE IF figs # <<>> THEN [state |-> "figure", fig |-> figs[Len(figs)]]
  ELSE [state |-> "blank", fig |-> NoValue]

Closed(o, figs) ==
  IF o.kind = "error" THEN figs
  ELSE IF IsFigure(o.ret)
       THEN (IF \E i \in 1..Len(figs) : figs[i] = o.ret
             THEN LET i == CHOOSE j \in 1..Len(figs) : figs[j] = o.ret
                  IN  SubSeq(figs, 1, i - 1) \o SubSeq(figs, i + 1, Len(figs))
             ELSE figs)
       ELSE IF figs # <<>> THEN SubSeq(figs, 1, Len(figs) - 1) ELSE figs

\* A render is in progress: plot() has returned and the framework has not yet
\* finished with its result.
InRender == outcome.kind # "invalidated" /\ display.state = "pending"

----------------------------------------------------------------------------
(* Actions *)

Init ==
  /\ input = Defaults
  /\ outcome = Invalidated
  /\ pyplot = <<>>
  /\ display = Pending
  /\ previous = ""

\* The user replaces the text of one control; the framework invalidates the plot
\* output if its last execution read that control.  The session is single-threaded:
\* no edit is taken while a render is in progress.
Edit(f, t) ==
  /\ ~InRender
  /\ t # input[f]
  /\ Cardinality(Changed([input EXCEPT ![f] = t])) <= MaxChanged
  /\ input' = [input EXCEPT ![f] = t]
  /\ outcome' = IF f \in outcome.deps THEN Invalidated ELSE outcome
  /\ display' = IF f \in outcome.deps THEN Pending ELSE display
  /\ previous' = IF f \in outcome.deps /\ outcome.kind # "invalidated" THEN outcome.kind
                 ELSE previous
  /\ UNCHANGED pyplot

\* The framework re-executes plot() for the invalidated output.
Render ==
  /\ outcome.kind = "invalidated"
  /\ outcome' = Call(input)
  /\ pyplot' = pyplot \o OpenedFigures(outcome')
  /\ UNCHANGED <<input, display, previous>>

\* The framework displays the result of the execution and closes the figure it drew.
Display ==
  /\ InRender
  /\ display' = Shown(outcome, pyplot)
  /\ pyplot' = Closed(outcome, pyplot)
  /\ UNCHANGED <<input, outcome, previous>>

Next ==
  \/ \E f \in FieldKeys : \E t \in Texts[f] : Edit(f, t)
  \/ Render
  \/ Display

Spec == Init /\ [][Next]_vars

----------------------------------------------------------------------------
(* Properties *)

GatedKeys == {"epsilon1", "epsilon2", "E1_magnitude", "alpha1"}

Rendered == outcome.kind # "invalidated"

\* Every control outside S holds its default text.
OthersDefault(S) == \A f \in FieldKeys \ S : input[f] = Defaults[f]

EmptyKeys == {f \in FieldKeys : input[f] = <<>>}

\* No figure, no error: the silent end of a render at a gate.
SilentNoOutput == outcome.kind = "none" /\ outcome.error = "" /\ outcome.fig = NoValue

\* Two floats agree to within tol units (two not-a-numbers agree).
Near(x, y, tol) ==
  \/ x = y
  \/ IsFin(x) /\ IsFin(y) /\ Abs(x.v - y.v) <= tol

\* C1: whenever a non-empty subset of epsilon1, epsilon2, E1_magnitude, alpha1 is
\* empty and every other control holds its default, the render ends at the
\* emptiness gate with no figure and no error.
C1_EmptinessGate ==
  (Rendered /\ EmptyKeys # {} /\ EmptyKeys \subseteq GatedKeys /\ OthersDefault(EmptyKeys))
    => (SilentNoOutput /\ outcome.stage = "emptiness_gate")

\* C1 witness: all four gated controls empty, D1_magnitude at its default, rendered.
C1_Witness ==
  /\ Rendered
  /\ EmptyKeys = GatedKeys
  /\ input.D1_magnitude = Defaults.D1_magnitude
  /\ outcome.stage = "emptiness_gate"

\* The ten bounds of the range gate as the specification states them.
InRange(p) ==
  /\ Le(Fin(0), p.epsilon1) /\ Le(p.epsilon1, Fin(10000 * Scale))
  /\ Le(Fin(0), p.epsilon2) /\ Le(p.epsilon2, Fin(10000 * Scale))
  /\ Le(Fin(0), p.E1_magnitude) /\ Le(p.E1_magnitude, Fin(10000 * Scale))
  /\ Le(Fin(0), p.D1_magnitude) /\ Le(p.D1_magnitude, Fin(10000 * Scale))
  /\ Le(Fin(-360 * Scale), p.alpha1) /\ Le(p.alpha1, Fin(360 * Scale))

PastRangeGate == outcome.stage \in {"compute", "return"}

\* C2 (as claimed): when all five texts parse, the render goes past the range gate
\* only if all ten bounds hold, and ends with no figure and no error if one does not.
C2_RangeGateAsClaimed ==
  (Rendered /\ ParseOk(input))
    => /\ PastRangeGate => InRange(Parsed(input))
       /\ ~InRange(Parsed(input)) => SilentNoOutput

\* C3: the range bounds are inclusive: with the other controls at their defaults,
\* epsilon1 = 0 gives a diagram and epsilon1 = -1 none; alpha1 = 360 and -360 give a
\* diagram and alpha1 = 360.0001 none.
C3_InclusiveBounds ==
  /\ (Rendered /\ OthersDefault({"epsilon1"}) /\ input.epsilon1 = <<"0">>)
       => outcome.kind = "figure"
  /\ (Rendered /\ OthersDefault({"epsilon1"}) /\ input.epsilon1 = <<"-", "1">>)
       => (SilentNoOutput /\ outcome.stage = "range_gate")
  /\ (Rendered /\ OthersDefault({"alpha1"}) /\ input.alpha1 \in {<<"3", "6", "0">>, <<"-", "3", "6", "0">>})
       => outcome.kind = "figure"
  /\ (Rendered /\ OthersDefault({"alpha1"}) /\ input.alpha1 = <<"3", "6", "0", ".", "0", "0", "0", "1">>)
       => (SilentNoOutput /\ outcome.stage = "range_gate")

\* C3 witness: alpha1 = 360, everything else default, rendered as a diagram.
C3_Witness ==
  /\ OthersDefault({"alpha1"})
  /\ input.alpha1 = <<"3", "6", "0">>
  /\ outcome.kind = "figure"

\* C4: with D1_magnitude empty and the other four controls at their defaults the
\* render passes the emptiness gate and fails at the parse step with an error.
C4_EmptyD1NotScreened ==
  (Rendered /\ input.D1_magnitude = <<>> /\ OthersDefault({"D1_magnitude"}))
    => /\ outcome.kind = "error"
       /\ outcome.stage = "parse"
       /\ outcome.error = "ValueError"
       /\ outcome.fig = NoValue

\* C4 witness: that render has happened.
C4_Witness ==
  /\ input.D1_magnitude = <<>>
  /\ OthersDefault({"D1_magnitude"})
  /\ outcome.stage = "parse"

\* C5: when the four gated controls are non-empty and some control holds text that
\* float() rejects, the render fails at the parse step with an error and builds no
\* figure; it does not end silently.
C5_NonNumericUnhandled ==
  (Rendered /\ EmptyKeys \cap GatedKeys = {} /\ \E f \in FieldKeys : ~ParseFloat(input[f]).ok)
    => /\ outcome.kind = "error"
       /\ outcome.stage = "parse"
       /\ outcome.error = "ValueError"
       /\ outcome.fig = NoValue

\* C5 witness: letters in D1_magnitude and in alpha1, the gated controls non-empty.
C5_Witness ==
  /\ Rendered
  /\ EmptyKeys = {}
  /\ input.D1_magnitude = <<"a", "b", "c">>
  /\ input.alpha1 = <<"a", "b", "c">>
  /\ outcome.kind = "error"

\* The refraction argument (epsilon1 / epsilon2) * sin(alpha1), in units of 1/Scale.
RefractionArg(p) == MulTrig(FloatDiv(p.epsilon1, p.epsilon2), Sin(Radians(p.alpha1)))

\* Both gates passed, epsilon2 # 0 and the refraction argument within [-1, 1].
InDomain ==
  /\ outcome.kind = "figure"
  /\ InRange(outcome.parsed)
  /\ Le(Fin(-Scale), RefractionArg(outcome.parsed))
  /\ Le(RefractionArg(outcome.parsed), Fin(Scale))

\* C6: for every accepted input with epsilon2 # 0 and the refraction argument in
\* [-1, 1], the computed geometry is the one the reference formulas give:
\* sin(alpha2) = (epsilon1/epsilon2) sin(alpha1) (to 5 units of 1/TrigScale),
\* E1 = E1_magnitude (cos alpha1, sin alpha1), D1 = D1_magnitude (cos alpha1, sin alpha1),
\* E2_magnitude = E1_magnitude (epsilon1/epsilon2), D2_magnitude = epsilon2 E2_magnitude,
\* E2 = E2_magnitude (cos alpha2, sin alpha2), D2 = D2_magnitude (cos alpha2, sin alpha2).
C6_ReferenceFormulas ==
  InDomain =>
    LET p  == outcome.parsed
        g  == outcome.geom
        a1 == Radians(p.alpha1)
        r  == FloatDiv(p.epsilon1, p.epsilon2)
    IN  /\ g.alpha1_rad = a1
        /\ IsFin(g.alpha2_rad)
        /\ Abs(Sin(g.alpha2_rad).v - RefractionArg(p).v * TrigUnit) <= 5
        /\ g.E1_x = MulTrig(p.E1_magnitude, Cos(a1))
        /\ g.E1_y = MulTrig(p.E1_magnitude, Sin(a1))
        /\ g.D1_x = MulTrig(p.D1_magnitude, Cos(a1))
        /\ g.D1_y = MulTrig(p.D1_magnitude, Sin(a1))
        /\ g.E2_magnitude = FloatMul(p.E1_magnitude, r)
        /\ g.D2_magnitude = FloatMul(p.epsilon2, g.E2_magnitude)
        /\ g.E2_x = MulTrig(g.E2_magnitude, Cos(g.alpha2_rad))
        /\ g.E2_y = MulTrig(g.E2_magnitude, Sin(g.alpha2_rad))
        /\ g.D2_x = MulTrig(g.D2_magnitude, Cos(g.alpha2_rad))
        /\ g.D2_y = MulTrig(g.D2_magnitude, Sin(g.alpha2_rad))

\* C6 witness: an in-domain geometry with a negative incidence angle.
C6_Witness ==
  /\ InDomain
  /\ input.alpha1 = <<"-", "3", "0">>
  /\ input.epsilon1 = <<"2">>
  /\ input.epsilon2 = <<"1">>
  /\ Lt(outcome.geom.E2_y, Fin(0))

DefaultRender == Rendered /\ input = Defaults

\* What the default scenario shares between the claim and its amendment.
DefaultScenarioCommon ==
  LET g == outcome.geom
  IN  /\ outcome.kind = "figure"
      /\ Near(Sin(g.alpha2_rad), Fin(250000), 5)
      /\ g.E2_magnitude = Fin(25000)
      /\ g.D2_magnitude = Fin(50000)
      /\ Near(g.E1_x, Fin(43300), 5) /\ Near(g.E1_y, Fin(25000), 5)
      /\ Near(g.D1_x, Fin(43300), 5) /\ Near(g.D1_y, Fin(25000), 5)
      /\ Near(g.E2_y, Fin(6250), 5)
      /\ Near(g.D2_y, Fin(12500), 5)

\* C7 (as claimed): the default texts 1, 2, 5, 5, 30 pass both gates and give
\* sin(alpha2) = 0.25, E2_magnitude = 2.5, D2_magnitude = 5, E1 = D1 = (4.330, 2.500),
\* E2 = (2.420, 0.625) and D2 = (4.840, 1.250), each to three decimals
\* (within 0.0005, 5 units of 1/Scale).
C7_DefaultScenarioAsClaimed ==
  DefaultRender =>
    /\ DefaultScenarioCommon
    /\ Near(outcome.geom.E2_x, Fin(24200), 5)
    /\ Near(outcome.geom.D2_x, Fin(48400), 5)

\* C7 (amended): as claimed, except that to three decimals E2_x is 2.421 and D2_x
\* is 4.841 (2.5 cos(arcsin 0.25) = 2.42061..., 5 cos(arcsin 0.25) = 4.84123...).
C7_DefaultScenario ==
  DefaultRender =>
    /\ DefaultScenarioCommon
    /\ Near(outcome.geom.E2_x, Fin(24210), 5)
    /\ Near(outcome.geom.D2_x, Fin(48410), 5)

\* C7 witness: the default texts have been rendered.
C7_Witness == DefaultRender /\ outcome.stage = "return"

\* C8 (as claimed): for every computed geometry the tangential component of E is
\* continuous: E2_magnitude sin(alpha2) = E1_magnitude sin(alpha1) (to 5 units of 1/Scale).
C8_TangentialEContinuous ==
  outcome.kind = "figure" =>
    Near(MulTrig(outcome.geom.E2_magnitude, Sin(outcome.geom.alpha2_rad)),
         MulTrig(outcome.parsed.E1_magnitude, Sin(outcome.geom.alpha1_rad)), 5)

\* C9 (as claimed): for every computed geometry the normal component of D is
\* continuous: D2_magnitude cos(alpha2) = D1_magnitude cos(alpha1) (to 5 units of 1/Scale).
C9_NormalDContinuous ==
  outcome.kind = "figure" =>
    Near(MulTrig(outcome.geom.D2_magnitude, Cos(outcome.geom.alpha2_rad)),
         MulTrig(outcome.parsed.D1_magnitude, Cos(outcome.geom.alpha1_rad)), 5)

\* The text of the negated number.
NegText(t) == IF t # <<>> /\ t[1] = "-" THEN Tail(t) ELSE <<"-">> \o t

NegFloat(x) == IF IsNaN(x) THEN NaN ELSE [k |-> x.k, v |-> -x.v]

\* C10: for valid inputs with a computed geometry, the render of the same texts with
\* alpha1 negated has alpha1_rad and alpha2_rad negated, the y component of each of
\* E1, E2, D1, D2 negated and the x component of each unchanged.
C10_AngleSymmetry ==
  (outcome.kind = "figure" /\ InRange(outcome.parsed)) =>
    LET g == outcome.geom
        m == Plot([input EXCEPT !.alpha1 = NegText(input.alpha1)])
    IN  /\ m.kind = "figure"
        /\ m.geom.alpha1_rad = NegFloat(g.alpha1_rad)
        /\ m.geom.alpha2_rad = NegFloat(g.alpha2_rad)
        /\ m.geom.E1_y = NegFloat(g.E1_y) /\ m.geom.E1_x = g.E1_x
        /\ m.geom.E2_y = NegFloat(g.E2_y) /\ m.geom.E2_x = g.E2_x
        /\ m.geom.D1_y = NegFloat(g.D1_y) /\ m.geom.D1_x = g.D1_x
        /\ m.geom.D2_y = NegFloat(g.D2_y) /\ m.geom.D2_x = g.D2_x

\* C10 witness: a geometry with non-zero y components at alpha1 = 90.
C10_Witness ==
  /\ outcome.kind = "figure"
  /\ InRange(outcome.parsed)
  /\ input.alpha1 = <<"9", "0">>
  /\ Gt(outcome.geom.E2_y, Fin(0))
  /\ Gt(outcome.geom.D1_y, Fin(0))

\* C11 (as claimed): for every input within the valid ranges with epsilon1 equal to
\* epsilon2, the engine yields alpha2_rad = alpha1_rad (to 5 units of 1/TrigScale),
\* E2_magnitude = E1_magnitude and D2_magnitude = epsilon2 * E1_magnitude.
C11_EqualPermittivityAsClaimed ==
  (Rendered /\ ParseOk(input) /\ InRange(Parsed(input))
     /\ Parsed(input).epsilon1 = Parsed(input).epsilon2)
    => /\ outcome.kind = "figure"
       /\ Near(outcome.geom.alpha2_rad, outcome.geom.alpha1_rad, 5)
       /\ outcome.geom.E2_magnitude = outcome.parsed.E1_magnitude
       /\ outcome.geom.D2_magnitude = FloatMul(outcome.parsed.epsilon2, outcome.parsed.E1_magnitude)

\* The refraction argument lies outside [-1, 1] (epsilon2 not zero).
OutOfDomain(p) ==
  /\ ~IsZero(p.epsilon2)
  /\ IsFin(RefractionArg(p))
  /\ Abs(RefractionArg(p).v) > Scale

\* C12: no gate rejects an input whose refraction argument lies outside [-1, 1]: such
\* a render, epsilon1 = 2, epsilon2 = 1, alpha1 = 90 among them, passes both gates and
\* takes the arcsine of the argument as it is, which gives not-a-number and no error.
C12_UnguardedArcsine ==
  /\ (Rendered /\ ParseOk(input) /\ InRange(Parsed(input)) /\ OutOfDomain(Parsed(input)))
       => /\ outcome.stage = "return"
          /\ outcome.error = ""
          /\ IsNaN(outcome.geom.alpha2_rad)
  /\ (Rendered /\ OthersDefault({"epsilon1", "epsilon2", "alpha1"})
        /\ input.epsilon1 = <<"2">> /\ input.epsilon2 = <<"1">> /\ input.alpha1 = <<"9", "0">>)
       => /\ RefractionArg(outcome.parsed) = Fin(2 * Scale)
          /\ outcome.stage = "return"
          /\ IsNaN(outcome.geom.alpha2_rad)

\* C12 witness: epsilon1 = 2, epsilon2 = 1, alpha1 = 90 has been rendered.
C12_Witness ==
  /\ Rendered
  /\ OthersDefault({"epsilon1", "epsilon2", "alpha1"})
  /\ input.epsilon1 = <<"2">> /\ input.epsilon2 = <<"1">> /\ input.alpha1 = <<"9", "0">>
  /\ OutOfDomain(outcome.parsed)

OneOfThreeOutcomes ==
  /\ outcome.kind \in {"figure", "none", "error"}
  /\ (outcome.kind = "figure") <=> (outcome.fig # NoValue)
  /\ (outcome.kind = "error") <=> (outcome.error # "")
  /\ (outcome.kind = "none") => SilentNoOutput

\* C14: every render ends as a diagram, a silent no-output or an error,
\* and an error occurs only when a text does not parse (an empty D1_magnitude
\* included) or the refraction argument is outside [-1, 1].
C14_OutcomesAsClaimed ==
  Rendered =>
    /\ OneOfThreeOutcomes
    /\ (outcome.kind = "error") => (~ParseOk(input) \/ OutOfDomain(Parsed(input)))

\* C15: when a render passes both gates and completes, the value plot()
\* returns is the figure it built.
C15_ReturnsFigureAsClaimed ==
  outcome.kind = "figure" => outcome.ret = outcome.fig

\* C16: a change of any control's text after a render, whatever its outcome, finds
\* all five controls among the dependencies of the output and invalidates it.
C16_EveryFieldTriggers ==
  [][(input' # input /\ outcome.kind # "invalidated")
       => (outcome.deps = FieldKeys /\ outcome'.kind = "invalidated" /\ display' = Pending)]_vars

\* C16 witness: a render that ended at the emptiness gate, with D1_magnitude edited,
\* depends on D1_magnitude.
C16_Witness ==
  /\ outcome.stage = "emptiness_gate"
  /\ display.state = "blank"
  /\ input.D1_magnitude # Defaults.D1_magnitude
  /\ "D1_magnitude" \in outcome.deps

MinusPlus(v, offset) == IF IsFin(v) THEN Fin(offset * Scale - v.v) ELSE NaN

Offsets == {-2, -1, 0, 1, 2}

\* Indices of the arrows of one colour, and of those among them with a legend label.
Coloured(a, c) == {i \in 1..Len(a) : a[i].color = c}
Labelled(a, c) == {i \in Coloured(a, c) : a[i].label # ""}

\* C19: the left panel has exactly three E1 arrows, with tails (-2, 0), (0, 0), (2, 0),
\* and exactly five E2 arrows, with tails (-E2_x + offset, -E2_y) for offset -2..2;
\* one arrow of each family is labelled: the E1 arrow at x = -2, the E2 arrow of offset -2.
C19_LeftPanel ==
  outcome.kind = "figure" =>
    LET a == outcome.fig.left.arrows
        g == outcome.geom
    IN  /\ Len(a) = 8
        /\ Cardinality(Coloured(a, "orange")) = 3
        /\ \A i \in Coloured(a, "orange") : a[i].u = g.E1_x /\ a[i].v = g.E1_y /\ a[i].y = Fin(0)
        /\ {a[i].x : i \in Coloured(a, "orange")} = {Fin(-2 * Scale), Fin(0), Fin(2 * Scale)}
        /\ Cardinality(Coloured(a, "blue")) = 5
        /\ \A i \in Coloured(a, "blue") : a[i].u = g.E2_x /\ a[i].v = g.E2_y /\ a[i].y = MinusPlus(g.E2_y, 0)
        /\ \E f \in [Coloured(a, "blue") -> Offsets] :
             /\ \A i, j \in Coloured(a, "blue") : f[i] = f[j] => i = j
             /\ \A i \in Coloured(a, "blue") : a[i].x = MinusPlus(g.E2_x, f[i])
             /\ \A i \in Labelled(a, "blue") : f[i] = -2 /\ a[i].label = "$E_2$"
        /\ Cardinality(Labelled(a, "orange")) = 1
        /\ \A i \in Labelled(a, "orange") : a[i].x = Fin(-2 * Scale) /\ a[i].label = "$E_1$"
        /\ Cardinality(Labelled(a, "blue")) = 1

\* C19 witness: a left panel drawn with finite, non-zero E2.
C19_Witness ==
  /\ outcome.kind = "figure"
  /\ IsFin(outcome.geom.E2_x) /\ outcome.geom.E2_x.v > 0
  /\ Len(outcome.fig.left.arrows) = 8
  /\ ~outcome.fig.left.hline

\* C20: the right panel has the boundary line y = 0 and, for each offset -2..2, one D1
\* arrow with tail (offset, 0) and one D2 arrow with tail (-D2_x + offset, -D2_y);
\* one D1 arrow and one D2 arrow, those of offset -2, are labelled.
C20_RightPanel ==
  outcome.kind = "figure" =>
    LET a == outcome.fig.right.arrows
        g == outcome.geom
    IN  /\ outcome.fig.right.hline
        /\ Len(a) = 10
        /\ Cardinality(Coloured(a, "red")) = 5
        /\ \A i \in Coloured(a, "red") : a[i].u = g.D1_x /\ a[i].v = g.D1_y /\ a[i].y = Fin(0)
        /\ {a[i].x : i \in Coloured(a, "red")} = {Fin(k * Scale) : k \in Offsets}
        /\ Cardinality(Coloured(a, "blue")) = 5
        /\ \A i \in Coloured(a, "blue") : a[i].u = g.D2_x /\ a[i].v = g.D2_y /\ a[i].y = MinusPlus(g.D2_y, 0)
        /\ \E f \in [Coloured(a, "blue") -> Offsets] :
             /\ \A i, j \in Coloured(a, "blue") : f[i] = f[j] => i = j
             /\ \A i \in Coloured(a, "blue") : a[i].x = MinusPlus(g.D2_x, f[i])
             /\ \A i \in Labelled(a, "blue") : f[i] = -2 /\ a[i].label = "$D_2$"
        /\ Cardinality(Labelled(a, "red")) = 1
        /\ \A i \in Labelled(a, "red") : a[i].x = Fin(-2 * Scale) /\ a[i].label = "$D_1$"
        /\ Cardinality(Labelled(a, "blue")) = 1

\* C20 witness: a right panel drawn with finite, non-zero D1 and D2.
C20_Witness ==
  /\ outcome.kind = "figure"
  /\ outcome.fig.right.hline
  /\ IsFin(outcome.geom.D2_x) /\ outcome.geom.D2_x.v > 0
  /\ IsFin(outcome.geom.D1_y) /\ outcome.geom.D1_y.v > 0

C22_GateBeforeParsing ==
  (Rendered /\ EmptyKeys \cap GatedKeys # {})
    => (SilentNoOutput /\ outcome.stage = "emptiness_gate" /\ outcome.parsed = NoValue)

\* C22 witness: epsilon1 empty while alpha1 is not a number and D1_magnitude is empty.
C22_Witness ==
  /\ display.state = "blank"
  /\ input.epsilon1 = <<>>
  /\ input.alpha1 = <<"a", "b", "c">>
  /\ input.D1_magnitude = <<>>

\* C23: with the four gated controls non-empty, a text that does not convert makes
\* the render fail with ValueError even when another control holds an out-of-range
\* number; the render ends silently at the range gate only when all five convert.
C23_ParseBeforeRangeGate ==
  (Rendered /\ EmptyKeys \cap GatedKeys = {})
    => /\ ~ParseOk(input)
            => (outcome.kind = "error" /\ outcome.error = "ValueError" /\ outcome.stage = "parse")
       /\ outcome.stage = "range_gate" => (ParseOk(input) /\ RangeGate(Parsed(input)))

\* C23 witness: epsilon1 is -1 (out of range), alpha1 is not a number, the render failed.
C23_Witness ==
  /\ display.state = "error"
  /\ input.epsilon1 = <<"-", "1">>
  /\ input.alpha1 = <<"a", "b", "c">>
  /\ outcome.error = "ValueError"

\* C24: when all five texts convert to in-range values and epsilon2 is 0, the render
\* passes the range gate and fails at the division with ZeroDivisionError, before
\* any figure is created, for every epsilon1.
C24_ZeroEpsilon2 ==
  (Rendered /\ ParseOk(input) /\ InRange(Parsed(input)) /\ IsZero(Parsed(input).epsilon2))
    => /\ outcome.kind = "error"
       /\ outcome.stage = "compute"
       /\ outcome.error = "ZeroDivisionError"
       /\ outcome.fig = NoValue
       /\ "matplotlib.pyplot" \notin outcome.calls
       /\ pyplot = <<>>

\* C24 witness: epsilon1 = 0 and epsilon2 = 0, the render failed at the division.
C24_Witness ==
  /\ display.state = "error"
  /\ input.epsilon1 = <<"0">>
  /\ input.epsilon2 = <<"0">>
  /\ outcome.error = "ZeroDivisionError"

\* The geometry of the same values with epsilon1 = 0, whose refraction argument is 0.
InDomainTwin(p) == Geometry([p EXCEPT !.epsilon1 = Fin(0)])

\* C25: with in-range inputs and the refraction argument outside [-1, 1], the E2 and
\* D2 components are not-a-number, the E1 and D1 components are finite and the same
\* as for an in-domain argument, and the render completes with a two-panel figure.
C25_NaNConfinedToMedium2 ==
  (Rendered /\ ParseOk(input) /\ InRange(Parsed(input)) /\ OutOfDomain(Parsed(input)))
    => /\ outcome.kind = "figure" /\ outcome.error = ""
       /\ IsNaN(outcome.geom.E2_x) /\ IsNaN(outcome.geom.E2_y)
       /\ IsNaN(outcome.geom.D2_x) /\ IsNaN(outcome.geom.D2_y)
       /\ IsFin(outcome.geom.E1_x) /\ IsFin(outcome.geom.E1_y)
       /\ IsFin(outcome.geom.D1_x) /\ IsFin(outcome.geom.D1_y)
       /\ LET t == InDomainTwin(outcome.parsed)
          IN  /\ outcome.geom.E1_x = t.E1_x /\ outcome.geom.E1_y = t.E1_y
              /\ outcome.geom.D1_x = t.D1_x /\ outcome.geom.D1_y = t.D1_y
       /\ Len(outcome.fig.left.arrows) = 8 /\ Len(outcome.fig.right.arrows) = 10
       /\ display.state # "pending" => display = [state |-> "figure", fig |-> outcome.fig]

\* C25 witness: epsilon1 = 2, epsilon2 = 1, alpha1 = 90, displayed.
C25_Witness ==
  /\ display.state = "figure"
  /\ input.epsilon1 = <<"2">>
  /\ input.epsilon2 = <<"1">>
  /\ input.alpha1 = <<"9", "0">>
  /\ IsNaN(outcome.geom.D2_x)
  /\ IsFin(outcome.geom.D1_y)

\* Sum of two coordinates.
Plus(x, y) == IF IsFin(x) /\ IsFin(y) THEN Fin(x.v + y.v) ELSE NaN

\* The point an arrow ends on: its tail plus its vector.
HeadOf(a) == <<Plus(a.x, a.u), Plus(a.y, a.v)>>

BoundaryPoints == {<<Fin(k * Scale), Fin(0)>> : k \in Offsets}

\* Every medium-2 arrow ends on the boundary at its offset, and in the right panel
\* on the tail of the D1 arrow drawn with it.
ArrowsMeetBoundary ==
  LET l == outcome.fig.left.arrows
      r == outcome.fig.right.arrows
  IN  /\ {HeadOf(l[i]) : i \in Coloured(l, "blue")} = BoundaryPoints
      /\ {HeadOf(r[i]) : i \in Coloured(r, "blue")} = BoundaryPoints
      /\ \A i \in Coloured(r, "blue") :
           /\ i - 1 \in Coloured(r, "red")
           /\ HeadOf(r[i]) = <<r[i - 1].x, r[i - 1].y>>

FiniteMedium2 ==
  /\ IsFin(outcome.geom.E2_x) /\ IsFin(outcome.geom.E2_y)
  /\ IsFin(outcome.geom.D2_x) /\ IsFin(outcome.geom.D2_y)

\* C26 (as claimed): for every computed geometry, each E2 and each D2 arrow ends at
\* (offset, 0), the D2 arrow on the tail of the D1 arrow of the same offset.
C26_ArrowsMeetBoundaryAsClaimed ==
  outcome.kind = "figure" => ArrowsMeetBoundary

\* C26 (amended): for every computed geometry whose E2 and D2 components are finite,
\* each E2 and each D2 arrow ends at (offset, 0), the D2 arrow on the tail of the D1
\* arrow of the same offset.
C26_ArrowsMeetBoundary ==
  (outcome.kind = "figure" /\ FiniteMedium2) => ArrowsMeetBoundary

\* C26 witness: a diagram with non-zero finite E2 and D2 vectors.
C26_Witness ==
  /\ outcome.kind = "figure"
  /\ FiniteMedium2
  /\ outcome.geom.E2_y.v # 0
  /\ outcome.geom.D2_x.v # 0
  /\ input.alpha1 = <<"-", "3", "0">>

\* All five texts convert to in-range values and epsilon2 is not zero.
Accepted == ParseOk(input) /\ InRange(Parsed(input)) /\ ~IsZero(Parsed(input).epsilon2)

\* C27: for every accepted input with epsilon2 # 0, D2_magnitude is
\* epsilon1 * E1_magnitude (to 5 units of 1/Scale), and D2 is the same whatever
\* D1_magnitude is.
C27_D2FromE1 ==
  (Rendered /\ Accepted) =>
    /\ outcome.kind = "figure"
    /\ Near(outcome.geom.D2_magnitude,
            FloatMul(outcome.parsed.epsilon1, outcome.parsed.E1_magnitude), 5)
    /\ LET t == Geometry([outcome.parsed EXCEPT !.D1_magnitude = Fin(7 * Scale)])
       IN  /\ t.D2_magnitude = outcome.geom.D2_magnitude
           /\ t.D2_x = outcome.geom.D2_x
           /\ t.D2_y = outcome.geom.D2_y

\* C27 witness: D1_magnitude = 10000 while epsilon1 * E1_magnitude = 10.
C27_Witness ==
  /\ outcome.kind = "figure"
  /\ input.D1_magnitude = <<"1", "0", "0", "0", "0">>
  /\ input.epsilon1 = <<"2">>
  /\ outcome.geom.D2_magnitude = Fin(10 * Scale)

\* Other values of D1_magnitude, and of the pair epsilon1, epsilon2.
OtherD1 == {Fin(0), Fin(7 * Scale)}
OtherEps == {<<Fin(0), Fin(Scale)>>, <<Fin(3 * Scale), Fin(2 * Scale)>>}

\* C28: for an accepted input, another D1_magnitude leaves the components of E1, E2
\* and D2 as they are, and another pair epsilon1, epsilon2 leaves the components of
\* E1 and D1 as they are.
C28_NonInterference ==
  (Rendered /\ Accepted) =>
    LET g == outcome.geom
    IN  /\ \A d \in OtherD1 :
             LET t == Geometry([outcome.parsed EXCEPT !.D1_magnitude = d])
             IN  /\ t.E1_x = g.E1_x /\ t.E1_y = g.E1_y
                 /\ t.E2_x = g.E2_x /\ t.E2_y = g.E2_y
                 /\ t.D2_x = g.D2_x /\ t.D2_y = g.D2_y
        /\ \A e \in OtherEps :
             LET t == Geometry([outcome.parsed EXCEPT !.epsilon1 = e[1], !.epsilon2 = e[2]])
             IN  /\ t.E1_x = g.E1_x /\ t.E1_y = g.E1_y
                 /\ t.D1_x = g.D1_x /\ t.D1_y = g.D1_y

\* C28 witness: an accepted input whose D1_magnitude and permittivities are none of
\* the other values compared with.
C28_Witness ==
  /\ outcome.kind = "figure"
  /\ Accepted
  /\ input.D1_magnitude = <<"1", "0", "0", "0", "0">>
  /\ input.epsilon1 = <<"1", "0", "0", "0", "0">>
  /\ outcome.geom.D1_x.v # 0

\* C29: a render that ended at either gate created no figure and made no call into
\* matplotlib.
C29_NoPlottingAtGates ==
  outcome.stage \in {"emptiness_gate", "range_gate"} =>
    /\ outcome.fig = NoValue
    /\ "matplotlib.pyplot" \notin outcome.calls
    /\ pyplot = <<>>
    /\ display.state \in {"pending", "blank"}

\* C29 witness: a render ended at the range gate and the output is blank.
C29_Witness ==
  /\ outcome.stage = "range_gate"
  /\ display.state = "blank"
  /\ input.E1_magnitude = <<"1", "0", "0", "0", "1">>

\* C30: when the execution before ended with no output or with an error and the
\* five texts now convert to in-range values with epsilon2 # 0 and an in-domain
\* refraction argument, the render produces the diagram of those values, it is what
\* the output shows, and no figure is left open.
C30_Recovery ==
  (Rendered /\ previous \in {"none", "error"} /\ Accepted /\ ~OutOfDomain(Parsed(input)))
    => /\ outcome.kind = "figure"
       /\ FiniteMedium2
       /\ outcome.fig = Plot(input).fig
       /\ display.state # "pending"
            => (display = [state |-> "figure", fig |-> outcome.fig] /\ pyplot = <<>>)

\* C30 witness: the diagram of the default values, shown after a failed execution.
C30_RecoveredFrom(k) ==
  /\ previous = k
  /\ input = Defaults
  /\ display.state = "figure"

C30_Witness == C30_RecoveredFrom("error")

====
